---- MODULE Spec2Model ----
(***************************************************************************)
(* Verification model of the TeacherBot client stores.                     *)
(*                                                                         *)
(* Part 1: the exercise store (frontend/src/stores/exerciseStore.ts), the  *)
(* submission grading pipeline: submitCode, its cooldown gate, the polling *)
(* chain of checkResult driven by setTimeout, loadExercise, reset.         *)
(*                                                                         *)
(* Every `await` of the source is a suspension point: the part of a        *)
(* handler before an await is one action, the continuation after it is     *)
(* another one, enabled while the request (or timer) is pending.           *)
(*                                                                         *)
(* Part 2: the content cache of the learning view                          *)
(* (frontend/src/app/dashboard/page.tsx): getFromCache, saveToCache,       *)
(* cacheStepData over one localStorage key, and the initLearning and       *)
(* goToStep handlers of LearningSessionContent that use them.              *)
(*                                                                         *)
(* Part 3: the node store (frontend/src/stores/nodeStore.ts): selectNode   *)
(* with its cache of fetched nodes and its table of pending requests.      *)
(*                                                                         *)
(* Part 4: one chat session: the chat store and the handleSendMessage      *)
(* handlers of the front end, and ChatService.process_message, the tool    *)
(* loop of the backend (both in the engineering documentation).            *)
(*                                                                         *)
(* Part 5: the auth store (useAuthStore): login, logout and loadUser with  *)
(* its throttle and its pending request.                                   *)
(*                                                                         *)
(* The parts share no state: each has its own specification, in which the  *)
(* variables of the other parts do not change.                             *)
(***************************************************************************)
EXTENDS Integers, Sequences, FiniteSets, TLC

VARIABLES
    currentExercise,     \* store field: the loaded exercise or NULL
    editorCode,          \* store field
    submissionStatus,    \* store field: 'idle' | 'submitting' | 'grading' | 'completed'
    results,             \* store field: NoResults or the verdict of a submission
    isLoading,           \* store field
    error,               \* store field: NULL or the message surfaced
    pollAttempts,        \* store field
    lastSubmissionTime,  \* store field: the cooldown timestamp
    now,                 \* Date.now(), in ms
    subs,                \* the accepted submitCode activations, by submission id
    loads,               \* number of api.getExercise requests in flight
    console,             \* the last line written by console.log
    left                 \* reset() was called and no submitCode was accepted since

storeVars == <<currentExercise, editorCode, submissionStatus, results,
               isLoading, error, pollAttempts, lastSubmissionTime>>

vars == <<currentExercise, editorCode, submissionStatus, results, isLoading,
          error, pollAttempts, lastSubmissionTime, now, subs, loads, console, left>>

----------------------------------------------------------------------------
(* Program constants *)

MAX_POLL_ATTEMPTS == 10

INITIAL_POLL_INTERVAL == 1000

MAX_POLL_INTERVAL == 8000

\* the literal of the debounce test `now - lastSubmission < 2000`
SubmitCooldown == 2000

(* Bounds of the model *)

\* number of clock readings that are told apart after the first one
MaxTicks == 3

\* api.getExercise requests in flight at one time
MaxLoads == 1

\* the clock advances in steps of one base interval
ClockStep == INITIAL_POLL_INTERVAL

\* Date.now() when the store is created: far enough from the initial
\* lastSubmissionTime = 0 for the first submit to pass the gate
StartTime == SubmitCooldown

\* every reading >= MaxTime is identified with MaxTime
MaxTime == StartTime + MaxTicks * ClockStep

NULL == "null"

\* results: null, or the ExerciseResult of submission i
NoResults == <<>>

Verdict(i) == <<i>>

Min(a, b) == IF a < b THEN a ELSE b

RECURSIVE Pow2(_)
\* Math.pow(2, n) for n >= 0
Pow2(n) == IF n <= 0 THEN 1 ELSE 2 * Pow2(n - 1)

----------------------------------------------------------------------------
(* Messages *)

ErrSubmit == "Failed to submit exercise"

ErrResults == "Failed to get results"

ErrLonger == "Grading is taking longer than expected. Please refresh to check results."

ErrLoad == "Failed to load exercise"

NoLog == [msg |-> "", attempt |-> 0, next |-> 0]

LogThrottled == [msg |-> "Submission throttled - please wait", attempt |-> 0, next |-> 0]

LogMaxPoll == [msg |-> "Max poll attempts reached, stopping", attempt |-> 0, next |-> 0]

LogPoll(attempt, nextInterval) ==
    [msg |-> "Poll attempt", attempt |-> attempt, next |-> nextInterval]

----------------------------------------------------------------------------
(* One accepted submitCode activation and the checkResult chain it starts. *)
(*   pc      "submit"  awaiting api.submitExercise                         *)
(*           "result"  awaiting api.getExerciseResult on the instant path  *)
(*           "timer"   a setTimeout(checkResult(.., attempt)) is pending   *)
(*           "poll"    checkResult(attempt) awaits api.getExerciseResult   *)
(*           "done"    nothing of this submission is pending               *)
(*   attempt the `attempt` argument of the pending / running checkResult   *)
(*   delay   the delay handed to the pending setTimeout                    *)
(*   due     the clock reading from which the pending timer may fire       *)
(*   polls   api.getExerciseResult calls made so far by the checkResult     *)
(*           chain while it runs (0 again once nothing is pending)         *)
(*   end     how it ended: "" | "verdict" | "error" | "cap"                *)

NewSub ==
    [pc |-> "submit", attempt |-> 0, delay |-> 0, due |-> 0, polls |-> 0,
     end |-> ""]

Pending(s) == s.pc # "done"

SubIds == 1..Len(subs)

\* the timer is never registered: the chain ends without a word
SetTimeout_Lost(s, attempt, delay) ==
    [s EXCEPT !.pc = "done", !.attempt = 0, !.delay = 0, !.due = 0, !.polls = 0]

\* setTimeout(f, delay): f runs no earlier than delay ms from now
SetTimeout(s, attempt, delay) ==
    [s EXCEPT !.pc = "timer", !.attempt = attempt, !.delay = delay,
              !.due = Min(now + delay, MaxTime)]

Finish(s, how) ==
    [s EXCEPT !.pc = "done", !.attempt = 0, !.delay = 0, !.due = 0, !.polls = 0,
              !.end = how]

\* the backoff computed by checkResult after a miss of poll `attempt`
NextInterval(attempt) ==
    Min(INITIAL_POLL_INTERVAL * Pow2(attempt - 1), MAX_POLL_INTERVAL)

\* the gate closes after half of the cooldown only
Throttled_Short(t, lastSubmission) == t - lastSubmission < SubmitCooldown \div 2

\* the debounce test of submitCode
Throttled(t, lastSubmission) == t - lastSubmission < SubmitCooldown

\* the cap test lets one more attempt through
CapReached_OffByOne(attempt) == attempt > MAX_POLL_ATTEMPTS + 1

\* the cap test fires after two attempts
CapReached_Early(attempt) == attempt > 2

\* the cap test of checkResult
CapReached(attempt) == attempt > MAX_POLL_ATTEMPTS

----------------------------------------------------------------------------
(* Part 2, state: the content cache and the learning view *)

VARIABLES
    cache,      \* localStorage under getCacheKey(nodeId): <<>> or <<CachedContent>>
    view,       \* the useState cells of LearningSessionContent
    inits,      \* the initLearning activations that went to the API
    navs,       \* the goToStep activations that went to the API
    wall,       \* Date.now(), in ms, as the cache reads it
    cacheLog    \* the last line getFromCache wrote to the console

cacheVars == <<cache, view, inits, navs, wall, cacheLog>>

CACHE_EXPIRY_HOURS == 24

\* the literal 1000 * 60 * 60 of getFromCache
HourMs == 3600000

\* initLearning activations that fetch
MaxInits == 2

\* goToStep activations that fetch
MaxNavs == 2

\* clock readings of the cache that are told apart after the first one
MaxCacheTicks == 3

\* the cache clock advances by half an expiry period
CacheClockStep == (CACHE_EXPIRY_HOURS \div 2) * HourMs

\* total_steps of the node, as the backend reports it
TotalSteps == 2

\* a Step that is null, or a key that stepDataCache does not have
NoStep == 0

\* A Step is identified by the request that returned it: the step of
\* response i to api.startLearningInstant, the step of response j to
\* api.getLearningStep.
InitContent(i) == i

NavContent(j) == MaxInits + j

NodeTitle == "node"

\* allSteps.steps: one StepMetadata per step
StepsMeta == [k \in 1..TotalSteps |-> k]

ErrContent == "Failed to load learning content"

ErrStep == "Failed to load step"

LogNoCache == "No cache found"

LogExpired == "Cache expired"

LogHit == "Cache hit"

MaxWall == CacheClockStep * (1 + MaxCacheTicks)

\* the hint button of the learning view counts up to this level
HINT_LEVELS == 3

CacheInit ==
    /\ cache = <<>>
    /\ view = [currentStep |-> 1, stepData |-> NoStep, stepsMeta |-> <<>>,
               totalSteps |-> 0, nodeTitle |-> "", isLoadingStep |-> TRUE,
               error |-> NULL, showHint |-> 0]
    /\ inits = <<>>
    /\ navs = <<>>
    /\ wall = CacheClockStep
    /\ cacheLog = ""

----------------------------------------------------------------------------
(* Part 3, state: the node store (frontend/src/stores/nodeStore.ts) *)

VARIABLES
    node,       \* the fields of useNodeStore
    nodeReqs,   \* the api.getNode requests issued, in order
    others,     \* api.getNodes and api.startNode requests awaiting their response
    returned,   \* what the last selectNode call returned
    selected    \* the nodeId argument of the last selectNode call

nodeVars == <<node, nodeReqs, others, returned, selected>>

\* node ids that are selected
NodeIdSet == {"A", "B"}

\* api.getNode requests
MaxNodeReqs == 3

\* api.getNodes and api.startNode requests in flight at a time
MaxOthers == 1

\* _pendingRequests[nodeId] is undefined or missing
Undefined == 0

\* selectNode returned without a pending request: its promise is resolved
Resolved == 0

ErrNode == "Failed to load node"

ErrNodes == "Failed to load nodes"

ErrStart == "Failed to start node"

NodeInit ==
    /\ node = [nodes |-> <<>>, currentNode |-> <<>>, isLoading |-> FALSE,
               error |-> NULL,
               nodesCache |-> [n \in NodeIdSet |-> <<>>],
               pendingRequests |-> [n \in NodeIdSet |-> Undefined]]
    /\ nodeReqs = <<>>
    /\ others = [getNodes |-> 0, startNode |-> 0]
    /\ returned = Resolved
    /\ selected = ""

----------------------------------------------------------------------------
(* Part 4, state: one chat session -- the chat store of one browser tab    *)
(* (useChatStore, the handleSendMessage handlers) and the backend's        *)
(* ChatService.process_message for the session                             *)

VARIABLES
    chat,        \* the fields of useChatStore
    turns,       \* one record per api.sendChatMessage request: the request as
                 \* the tab sees it and the process_message call it started
    transcript,  \* the messages stored for the session (save_message)
    lastCall     \* the messages argument of the last client.messages.create

chatVars == <<chat, turns, transcript, lastCall>>

\* messages sent in the session
MaxTurns == 2

\* model calls of one turn that are counted; further calls leave the count
MaxCalls == 3

\* tool_use blocks in one model response
MaxToolUses == 2

\* tool names the model may ask for; the last one has no handler
ToolNames == {"create_learning_path", "generate_exercise", "unknown_tool"}

ErrSend == "Failed to send message"

ChatInit ==
    /\ chat = [messages |-> <<>>, isLoading |-> FALSE, error |-> NULL]
    /\ turns = <<>>
    /\ transcript = <<>>
    /\ lastCall = [turn |-> 0, messages |-> <<>>]

----------------------------------------------------------------------------
(* Part 5, state: the auth store (useAuthStore, in exerciseStore.ts)       *)

VARIABLES
    auth,         \* the fields of useAuthStore; user, token and isAuthenticated
                  \* are also what the 'auth-storage' entry holds
    accessToken,  \* the 'access_token' entry of localStorage
    authReqs,     \* requests awaiting their response: api.login, api.logout,
                  \* api.getCurrentUser (with the token loadUser read)
    authNow,      \* Date.now()
    loggedOut     \* a logout has completed and no login has succeeded since

authVars == <<auth, accessToken, authReqs, authNow, loggedOut>>

\* every variable of the model
allVars == <<vars, cacheVars, nodeVars, chatVars, authVars>>

\* 5 * 60 * 1000
LOAD_USER_THROTTLE_MS == 300000

\* clock steps of the auth store
MaxAuthTicks == 2

\* api.login requests in flight at once
MaxLogins == 1

\* api.logout requests in flight at once
MaxLogouts == 1

\* one step of the clock: half of the throttle window
AuthClockStep == LOAD_USER_THROTTLE_MS \div 2

\* Date.now() is at least one window after _lastLoadTime: 0
AuthStartTime == LOAD_USER_THROTTLE_MS

MaxAuthTime == AuthStartTime + MaxAuthTicks * AuthClockStep

\* data.user / the user api.getCurrentUser returns
TheUser == "user"

\* data.access_token of api.login
LoginToken == "login_token"

\* a value found under 'access_token'
StoredToken == "stored_token"

NoPromise == 0

ErrLogin == "Login failed"

\* the store once created and rehydrated, in a browser without an
\* 'access_token' entry
AuthInit ==
    /\ auth = [user |-> NULL, token |-> NULL, isAuthenticated |-> FALSE,
               isLoading |-> TRUE, error |-> NULL, hasHydrated |-> TRUE,
               lastLoadTime |-> 0, loadPromise |-> NoPromise]
    /\ accessToken = NULL
    /\ authReqs = [login |-> 0, logout |-> 0, getCurrentUser |-> NULL]
    /\ authNow = AuthStartTime
    /\ loggedOut = FALSE

----------------------------------------------------------------------------
Init ==
    /\ currentExercise = NULL
    /\ editorCode = ""
    /\ submissionStatus = "idle"
    /\ results = NoResults
    /\ isLoading = FALSE
    /\ error = NULL
    /\ pollAttempts = 0
    /\ lastSubmissionTime = 0
    /\ now = StartTime
    /\ subs = <<>>
    /\ loads = 0
    /\ console = NoLog
    /\ left = FALSE
    /\ CacheInit
    /\ NodeInit
    /\ ChatInit
    /\ AuthInit

\* time passes
Tick ==
    /\ now < MaxTime
    /\ now' = now + ClockStep
    /\ UNCHANGED <<storeVars, subs, loads, console, left>>

\* submitCode up to its first await
SubmitCode ==
    /\ now < MaxTime
    /\ IF Throttled(now, lastSubmissionTime)
       THEN /\ console' = LogThrottled
            /\ UNCHANGED <<storeVars, subs, left>>
       ELSE /\ submissionStatus' = "submitting"
            /\ error' = NULL
            /\ pollAttempts' = 0
            /\ lastSubmissionTime' = now
            /\ subs' = Append(subs, NewSub)
            /\ left' = FALSE
            /\ UNCHANGED <<currentExercise, editorCode, results, isLoading, console>>
    /\ UNCHANGED <<now, loads>>

\* submitCode called when the modelled clock has reached its end and every
\* earlier submission has ended (with a verdict, an error or at the cap)
SubmitCodeAgain ==
    /\ now = MaxTime
    /\ Len(subs) > 0
    /\ \A i \in SubIds : ~Pending(subs[i])
    /\ IF Throttled(now, lastSubmissionTime)
       THEN /\ console' = LogThrottled
            /\ UNCHANGED <<storeVars, subs, left>>
       ELSE /\ submissionStatus' = "submitting"
            /\ error' = NULL
            /\ pollAttempts' = 0
            /\ lastSubmissionTime' = now
            /\ subs' = Append(subs, NewSub)
            /\ left' = FALSE
            /\ UNCHANGED <<currentExercise, editorCode, results, isLoading, console>>
    /\ UNCHANGED <<now, loads>>

\* api.submitExercise answers: the continuation of submitCode after `await`
SubmitResponse(i) ==
    /\ subs[i].pc = "submit"
    /\ \/ \* data.status === 'completed': fetch the result at once
          /\ subs' = [subs EXCEPT ![i].pc = "result"]
          /\ UNCHANGED storeVars
       \/ \* any other status: fall back to polling
          /\ submissionStatus' = "grading"
          /\ subs' = [subs EXCEPT ![i] = SetTimeout(@, 1, INITIAL_POLL_INTERVAL)]
          /\ UNCHANGED <<currentExercise, editorCode, results, isLoading, error,
                         pollAttempts, lastSubmissionTime>>
       \/ \* the request throws: the catch block of submitCode
          /\ error' = ErrSubmit
          /\ submissionStatus' = "idle"
          /\ subs' = [subs EXCEPT ![i] = Finish(@, "error")]
          /\ UNCHANGED <<currentExercise, editorCode, results, isLoading,
                         pollAttempts, lastSubmissionTime>>
    /\ UNCHANGED <<now, loads, console, left>>

\* api.getExerciseResult answers on the instant path of submitCode
ResultResponse(i) ==
    /\ subs[i].pc = "result"
    /\ \/ /\ results' = Verdict(i)
          /\ submissionStatus' = "completed"
          /\ subs' = [subs EXCEPT ![i] = Finish(@, "verdict")]
          /\ UNCHANGED <<currentExercise, editorCode, isLoading, error,
                         pollAttempts, lastSubmissionTime>>
       \/ \* the request throws: the same catch block
          /\ error' = ErrSubmit
          /\ submissionStatus' = "idle"
          /\ subs' = [subs EXCEPT ![i] = Finish(@, "error")]
          /\ UNCHANGED <<currentExercise, editorCode, results, isLoading,
                         pollAttempts, lastSubmissionTime>>
    /\ UNCHANGED <<now, loads, console, left>>

\* at the cap the handler also drops the verdict and the poll count
CheckResult_Clears(i) ==
    /\ subs[i].pc = "timer"
    /\ now >= subs[i].due
    /\ IF CapReached(subs[i].attempt)
       THEN /\ console' = LogMaxPoll
            /\ error' = ErrLonger
            /\ submissionStatus' = "idle"
            /\ results' = NoResults
            /\ pollAttempts' = 0
            /\ subs' = [subs EXCEPT ![i] = Finish(@, "cap")]
            /\ UNCHANGED <<currentExercise, editorCode, isLoading,
                           lastSubmissionTime>>
       ELSE /\ subs' = [subs EXCEPT ![i].pc = "poll", ![i].delay = 0, ![i].due = 0,
                                    ![i].polls = @ + 1]
            /\ UNCHANGED <<storeVars, console>>
    /\ UNCHANGED <<now, loads, left>>

\* a poll timer fires: checkResult(exerciseId, submissionId, attempt) up to its await
CheckResult(i) ==
    /\ subs[i].pc = "timer"
    /\ now >= subs[i].due
    /\ IF CapReached(subs[i].attempt)
       THEN /\ console' = LogMaxPoll
            /\ error' = ErrLonger
            /\ submissionStatus' = "idle"
            /\ subs' = [subs EXCEPT ![i] = Finish(@, "cap")]
            /\ UNCHANGED <<currentExercise, editorCode, results, isLoading,
                           pollAttempts, lastSubmissionTime>>
       ELSE /\ subs' = [subs EXCEPT ![i].pc = "poll", ![i].delay = 0, ![i].due = 0,
                                    ![i].polls = @ + 1]
            /\ UNCHANGED <<storeVars, console>>
    /\ UNCHANGED <<now, loads, left>>

\* api.getExerciseResult answers a poll: the continuation of checkResult
PollResponse(i) ==
    /\ subs[i].pc = "poll"
    /\ \/ \* result.status === 'completed'
          /\ results' = Verdict(i)
          /\ submissionStatus' = "completed"
          /\ pollAttempts' = 0
          /\ subs' = [subs EXCEPT ![i] = Finish(@, "verdict")]
          /\ UNCHANGED <<currentExercise, editorCode, isLoading, error,
                         lastSubmissionTime, console>>
       \/ \* a miss: schedule the next poll
          /\ pollAttempts' = subs[i].attempt
          /\ console' = LogPoll(subs[i].attempt, NextInterval(subs[i].attempt))
          /\ subs' = [subs EXCEPT ![i] =
                        SetTimeout(@, subs[i].attempt + 1, NextInterval(subs[i].attempt))]
          /\ UNCHANGED <<currentExercise, editorCode, submissionStatus, results,
                         isLoading, error, lastSubmissionTime>>
       \/ \* the request throws: the catch block of checkResult
          /\ error' = ErrResults
          /\ submissionStatus' = "idle"
          /\ pollAttempts' = 0
          /\ subs' = [subs EXCEPT ![i] = Finish(@, "error")]
          /\ UNCHANGED <<currentExercise, editorCode, results, isLoading,
                         lastSubmissionTime, console>>
    /\ UNCHANGED <<now, loads, left>>

\* reset(): the exercise view is left
Reset ==
    /\ currentExercise' = NULL
    /\ editorCode' = ""
    /\ submissionStatus' = "idle"
    /\ results' = NoResults
    /\ error' = NULL
    /\ pollAttempts' = 0
    /\ left' = TRUE
    /\ UNCHANGED <<isLoading, lastSubmissionTime, now, subs, loads, console>>

ClearError ==
    /\ error' = NULL
    /\ UNCHANGED <<currentExercise, editorCode, submissionStatus, results, isLoading,
                   pollAttempts, lastSubmissionTime, now, subs, loads, console, left>>

\* loadExercise up to its await
LoadExercise ==
    /\ loads < MaxLoads
    /\ isLoading' = TRUE
    /\ error' = NULL
    /\ loads' = loads + 1
    /\ UNCHANGED <<currentExercise, editorCode, submissionStatus, results,
                   pollAttempts, lastSubmissionTime, now, subs, console, left>>

\* api.getExercise answers
LoadExerciseResponse ==
    /\ loads > 0
    /\ loads' = loads - 1
    /\ \/ /\ currentExercise' = "E"
          /\ editorCode' = "starter_code"
          /\ isLoading' = FALSE
          /\ submissionStatus' = "idle"
          /\ results' = NoResults
          /\ UNCHANGED <<error, pollAttempts, lastSubmissionTime, subs>>
       \/ /\ error' = ErrLoad
          /\ isLoading' = FALSE
          /\ UNCHANGED <<currentExercise, editorCode, submissionStatus, results,
                         pollAttempts, lastSubmissionTime, subs>>
    /\ UNCHANGED <<now, console, left>>

\* setEditorCode(code)
SetEditorCode ==
    /\ editorCode' = "edited"
    /\ UNCHANGED <<currentExercise, submissionStatus, results, isLoading, error,
                   pollAttempts, lastSubmissionTime, now, subs, loads, console, left>>

Next ==
  /\ UNCHANGED <<cacheVars, nodeVars, chatVars, authVars>>
  /\
    \/ Tick
    \/ SubmitCode
    \/ \E i \in SubIds : SubmitResponse(i)
    \/ \E i \in SubIds : ResultResponse(i)
    \/ \E i \in SubIds : CheckResult(i)
    \/ \E i \in SubIds : PollResponse(i)
    \/ Reset
    \/ ClearError
    \/ LoadExercise
    \/ LoadExerciseResponse
    \/ SetEditorCode

Spec == Init /\ [][Next]_allVars

\* every request eventually returns or fails, every timer eventually fires
Fairness ==
    /\ WF_vars(Tick)
    /\ WF_vars(\E i \in SubIds : SubmitResponse(i))
    /\ WF_vars(\E i \in SubIds : ResultResponse(i))
    /\ WF_vars(\E i \in SubIds : CheckResult(i))
    /\ WF_vars(\E i \in SubIds : PollResponse(i))
    /\ WF_vars(LoadExerciseResponse)

LiveSpec == Init /\ [][Next]_allVars /\ Fairness

\* The scenario of one submission on a view that stays mounted: no second
\* submission is accepted, and neither reset nor loadExercise is called.
ScenarioNext ==
  /\ UNCHANGED <<cacheVars, nodeVars, chatVars, authVars>>
  /\
    \/ Tick
    \/ (Len(subs) = 0 \/ Throttled(now, lastSubmissionTime)) /\ SubmitCode
    \/ \E i \in SubIds : SubmitResponse(i)
    \/ \E i \in SubIds : ResultResponse(i)
    \/ \E i \in SubIds : CheckResult(i)
    \/ \E i \in SubIds : PollResponse(i)
    \/ ClearError
    \/ SetEditorCode

ScenarioSpec == Init /\ [][ScenarioNext]_allVars

\* The store with a further submitCode call at the end of the modelled clock
ResubmitNext ==
  /\ UNCHANGED <<cacheVars, nodeVars, chatVars, authVars>>
  /\
    \/ Tick
    \/ SubmitCode
    \/ SubmitCodeAgain
    \/ \E i \in SubIds : SubmitResponse(i)
    \/ \E i \in SubIds : ResultResponse(i)
    \/ \E i \in SubIds : CheckResult(i)
    \/ \E i \in SubIds : PollResponse(i)
    \/ Reset
    \/ ClearError
    \/ LoadExercise
    \/ LoadExerciseResponse
    \/ SetEditorCode

ResubmitSpec == Init /\ [][ResubmitNext]_allVars

----------------------------------------------------------------------------
(* The grading pipeline: properties *)

PendingSubs == {i \in SubIds : Pending(subs[i])}

\* C1: a submitCode call made less than 2000 ms after the last accepted one
\* is a silent no-op: no store field changes and api.submitExercise is not
\* called; a grading request is issued only when at least 2000 ms have passed
\* since the last accepted call, so one 2-second window holds one submission.
C1_ThrottledSubmitIsNoOp ==
    [][ /\ (SubmitCode /\ now - lastSubmissionTime < 2000)
            => (UNCHANGED storeVars /\ subs' = subs)
        /\ Len(subs') # Len(subs)
            => /\ now - lastSubmissionTime >= 2000
               /\ Len(subs') = Len(subs) + 1
               /\ lastSubmissionTime' = now ]_vars

\* a second call inside the window has been absorbed: one submission exists
C1_Witness ==
    /\ console = LogThrottled
    /\ Len(subs) = 1
    /\ now - lastSubmissionTime < 2000
    /\ submissionStatus = "submitting"

\* C2: one submission issues at most 10 result polls; when the timer after
\* the 10th miss fires, no poll is issued and none is scheduled, and the
\* store surfaces 'Grading is taking longer than expected'.
C2_PollsAreCapped ==
    /\ [](\A i \in SubIds : subs[i].polls <= 10)
    /\ [][\A i \in SubIds :
            (CheckResult(i) /\ subs[i].polls = 10)
                => /\ subs'[i].pc = "done"
                   /\ error' = ErrLonger ]_vars

\* the cap was reached after ten misses and its message is on display
C2_Witness ==
    \E i \in SubIds : subs[i].end = "cap" /\ error = ErrLonger

\* C3 (as claimed): the wait that precedes the k-th poll of a submission is
\* min(1000 * 2^(k-1), 8000) ms.
C3_KthDelayDoubles ==
    \A i \in SubIds :
        subs[i].pc = "timer" =>
            subs[i].delay = Min(1000 * Pow2(subs[i].attempt - 1), 8000)

\* C4 (as claimed): apart from reset and loadExercise, submissionStatus
\* changes only along idle -> submitting -> grading -> completed (and
\* submitting -> completed), a failure leads to 'failed', never back to 'idle'.
C4_StatusFollowsTable ==
    [][ (submissionStatus' # submissionStatus /\ ~Reset /\ ~LoadExerciseResponse)
            => <<submissionStatus, submissionStatus'>> \in
                   { <<"idle", "submitting">>, <<"submitting", "grading">>,
                     <<"grading", "completed">>, <<"submitting", "completed">>,
                     <<"submitting", "failed">>, <<"grading", "failed">>,
                     <<"completed", "submitting">>, <<"failed", "submitting">> } ]_vars

\* C5 (as claimed): without reset and loadExercise, the only step that takes
\* submissionStatus out of 'completed' is an accepted submitCode.
C5_CompletedNeverRegresses ==
    [][ (submissionStatus = "completed" /\ submissionStatus' # "completed")
            => \/ SubmitCode /\ submissionStatus' = "submitting"
               \/ Reset
               \/ LoadExerciseResponse ]_vars

\* C6 (as claimed): a verdict held in results is replaced only by the verdict
\* of a submission accepted later, never by that of an earlier one.
C6_VerdictOnlySuperseded ==
    [][ (results # NoResults /\ results' # NoResults)
            => results'[1] >= results[1] ]_vars

\* C7 (as claimed): at most one submission is in progress at any instant.
C7_OneSubmissionInProgress == Cardinality(PendingSubs) <= 1

InProgress == submissionStatus \in {"submitting", "grading"}

\* C8: when requests are answered and timers fire, a status of 'submitting'
\* or 'grading' leads to 'completed', or to a surfaced error with no request
\* and no poll timer of any submission left.
C8_InProgressLeadsToSettled ==
    InProgress ~> (\/ submissionStatus = "completed"
                   \/ error # NULL /\ PendingSubs = {})

\* two submissions were accepted and both have ended
C8_Witness ==
    /\ Len(subs) = 2
    /\ PendingSubs = {}
    /\ (submissionStatus = "completed" \/ error # NULL)

\* C9: for a single submission graded asynchronously the status is
\* 'submitting' until api.submitExercise answers, 'grading' from then on,
\* before the first poll and across every missed poll, and 'completed' once a
\* poll reports completion; the timers of polls 1 to 3 all issue their poll
\* and leave the status at 'grading' (no visit to 'idle' in between).
C9_SubmittingGradingCompleted ==
    /\ [](\A i \in SubIds :
            /\ subs[i].pc \in {"submit", "result"} => submissionStatus = "submitting"
            /\ subs[i].pc \in {"timer", "poll"} => submissionStatus = "grading"
            /\ subs[i].pc = "poll" => pollAttempts = subs[i].polls - 1
            /\ subs[i].end = "verdict" => submissionStatus = "completed")
    /\ [][\A i \in SubIds :
            (CheckResult(i) /\ subs[i].attempt <= 3)
                => /\ subs'[i].pc = "poll"
                   /\ submissionStatus' = "grading" ]_vars

\* the third poll, issued after the misses of polls 1 and 2, reported
\* completion
C9_Witness ==
    /\ Len(subs) = 1
    /\ subs[1].end = "verdict"
    /\ console = LogPoll(2, NextInterval(2))
    /\ submissionStatus = "completed"
    /\ results = Verdict(1)

\* C10 (as claimed): once reset() was called (and no submission was accepted
\* since), no checkResult step changes submissionStatus, results, error or
\* pollAttempts, and none issues a further result poll.
C10_PendingPollAppliesNothing ==
    [][ left =>
          \A i \in SubIds :
              (CheckResult(i) \/ PollResponse(i))
                  => /\ UNCHANGED <<submissionStatus, results, error, pollAttempts>>
                     /\ subs'[i].polls <= subs[i].polls ]_vars

----------------------------------------------------------------------------
(* Part 2, the cache utilities *)

\* hoursSinceCached > CACHE_EXPIRY_HOURS, at Date.now() = t
Expired_AtLimit(entry, t) == (t - entry.cachedAt) >= CACHE_EXPIRY_HOURS * HourMs
Expired(entry, t) == (t - entry.cachedAt) > CACHE_EXPIRY_HOURS * HourMs

\* getFromCache at Date.now() = t over the stored item c: what it returns
\* (<<>> for null), what it leaves in localStorage, what it logs
GetFromCache_Keep(c, t) ==
    IF c = <<>> THEN [data |-> <<>>, store |-> c, log |-> LogNoCache]
    ELSE IF Expired(c[1], t) THEN [data |-> <<>>, store |-> c, log |-> LogExpired]
    ELSE [data |-> c, store |-> c, log |-> LogHit]
GetFromCache(c, t) ==
    IF c = <<>> THEN [data |-> <<>>, store |-> <<>>, log |-> LogNoCache]
    ELSE IF Expired(c[1], t) THEN [data |-> <<>>, store |-> <<>>, log |-> LogExpired]
    ELSE [data |-> c, store |-> c, log |-> LogHit]

\* saveToCache that lets the cachedAt of its data object win
SaveToCache_Restamp(c, t, data) ==
    <<[nodeTitle |-> data.nodeTitle, totalSteps |-> data.totalSteps,
       steps |-> data.steps, stepDataCache |-> data.stepDataCache,
       cachedAt |-> data.cachedAt]>>

\* saveToCache with a data object that has every field of CachedContent,
\* as its one caller passes it: the stored item afterwards
SaveToCache(c, t, data) ==
    LET got == GetFromCache(c, t)
        existing == IF got.data # <<>> THEN got.data[1]
                    ELSE [nodeTitle |-> "", totalSteps |-> 0, steps |-> <<>>,
                          stepDataCache |-> [k \in 1..TotalSteps |-> NoStep],
                          cachedAt |-> t]
    IN  <<[nodeTitle |-> data.nodeTitle, totalSteps |-> data.totalSteps,
           steps |-> data.steps, stepDataCache |-> data.stepDataCache,
           cachedAt |-> IF existing.cachedAt # 0 THEN existing.cachedAt ELSE t]>>

\* cacheStepData: the stored item afterwards
CacheStepData(c, t, stepNumber, stepData) ==
    LET got == GetFromCache(c, t)
    IN  IF got.data # <<>>
        THEN <<[got.data[1] EXCEPT !.stepDataCache[stepNumber] = stepData]>>
        ELSE got.store

----------------------------------------------------------------------------
(* Part 2, the handlers of LearningSessionContent *)

InitIds == 1..Len(inits)

NavIds == 1..Len(navs)

\* the api.startLearningInstant and api.getLearningStep calls made so far
Fetches == Len(inits) + Len(navs)

\* content requests that are awaiting their response
InitsInFlight == {i \in InitIds : inits[i].pc = "start"}

NavsInFlight(k) == {j \in NavIds : navs[j].pc = "fetch" /\ navs[j].step = k}

CTick ==
    /\ wall < MaxWall
    /\ wall' = wall + CacheClockStep
    /\ cacheLog' = ""
    /\ UNCHANGED <<cache, view, inits, navs>>

\* the initLearning effect up to its return or its first await
InitLearning(isAuthenticated) ==
    IF ~isAuthenticated
    THEN /\ cacheLog' = ""
         /\ UNCHANGED <<cache, view, inits, navs, wall>>
    ELSE
    LET got == GetFromCache(cache, wall)
        cached == got.data
    IN  /\ cache' = got.store
        /\ cacheLog' = got.log
        /\ IF cached # <<>> /\ cached[1].totalSteps > 0
                /\ cached[1].stepDataCache[1] # NoStep
           THEN /\ view' = [view EXCEPT !.error = NULL,
                                        !.nodeTitle = cached[1].nodeTitle,
                                        !.totalSteps = cached[1].totalSteps,
                                        !.stepsMeta = cached[1].steps,
                                        !.stepData = cached[1].stepDataCache[1],
                                        !.currentStep = 1,
                                        !.isLoadingStep = FALSE]
                /\ UNCHANGED inits
           ELSE /\ Len(inits) < MaxInits
                /\ view' = [view EXCEPT !.error = NULL, !.isLoadingStep = TRUE]
                /\ inits' = Append(inits, [pc |-> "start"])
        /\ UNCHANGED <<navs, wall>>

\* api.startLearningInstant settles
InitStartResponse(i, ok) ==
    /\ i \in InitIds
    /\ inits[i].pc = "start"
    /\ IF ok
       THEN /\ view' = [view EXCEPT !.nodeTitle = NodeTitle,
                                    !.totalSteps = TotalSteps,
                                    !.stepData = InitContent(i),
                                    !.currentStep = 1]
            /\ inits' = [inits EXCEPT ![i].pc = "steps"]
       ELSE /\ view' = [view EXCEPT !.error = ErrContent, !.isLoadingStep = FALSE]
            /\ inits' = [inits EXCEPT ![i].pc = "done"]
    /\ cacheLog' = ""
    /\ UNCHANGED <<cache, navs, wall>>

\* api.getAllSteps settles; saveToCache
InitStepsResponse(i, ok) ==
    /\ i \in InitIds
    /\ inits[i].pc = "steps"
    /\ IF ok
       THEN /\ view' = [view EXCEPT !.stepsMeta = StepsMeta, !.isLoadingStep = FALSE]
            /\ cache' = SaveToCache(cache, wall,
                    [nodeTitle |-> NodeTitle, totalSteps |-> TotalSteps,
                     steps |-> StepsMeta,
                     stepDataCache |-> [k \in 1..TotalSteps |->
                                          IF k = 1 THEN InitContent(i) ELSE NoStep],
                     cachedAt |-> wall])
            /\ cacheLog' = GetFromCache(cache, wall).log
       ELSE /\ view' = [view EXCEPT !.error = ErrContent, !.isLoadingStep = FALSE]
            /\ cacheLog' = ""
            /\ UNCHANGED cache
    /\ inits' = [inits EXCEPT ![i].pc = "done"]
    /\ UNCHANGED <<navs, wall>>

\* the step numbers the page offers to goToStep: goNext, goPrevious and the
\* table of contents; the error page offers none
Clickable ==
    IF view.error # NULL THEN {}
    ELSE (IF view.currentStep < view.totalSteps THEN {view.currentStep + 1} ELSE {})
         \cup (IF view.currentStep > 1 THEN {view.currentStep - 1} ELSE {})
         \cup {view.stepsMeta[n] : n \in 1..Len(view.stepsMeta)}

\* goToStep up to its return or its await
GoToStep(stepNumber) ==
    /\ ~(stepNumber < 1 \/ stepNumber > view.totalSteps)
    /\ LET got == GetFromCache(cache, wall)
           cached == got.data
       IN  /\ cache' = got.store
           /\ cacheLog' = got.log
           /\ IF cached # <<>> /\ cached[1].stepDataCache[stepNumber] # NoStep
              THEN /\ view' = [view EXCEPT !.showHint = 0,
                                           !.stepData = cached[1].stepDataCache[stepNumber],
                                           !.currentStep = stepNumber,
                                           !.isLoadingStep = FALSE]
                   /\ UNCHANGED navs
              ELSE /\ Len(navs) < MaxNavs
                   /\ view' = [view EXCEPT !.showHint = 0, !.isLoadingStep = TRUE]
                   /\ navs' = Append(navs, [pc |-> "fetch", step |-> stepNumber])
    /\ UNCHANGED <<inits, wall>>

\* api.getLearningStep settles; cacheStepData
NavResponse(j, ok) ==
    /\ j \in NavIds
    /\ navs[j].pc = "fetch"
    /\ IF ok
       THEN /\ view' = [view EXCEPT !.stepData = NavContent(j),
                                    !.currentStep = navs[j].step,
                                    !.isLoadingStep = FALSE]
            /\ cache' = CacheStepData(cache, wall, navs[j].step, NavContent(j))
            /\ cacheLog' = GetFromCache(cache, wall).log
       ELSE /\ view' = [view EXCEPT !.error = ErrStep, !.isLoadingStep = FALSE]
            /\ cacheLog' = ""
            /\ UNCHANGED cache
    /\ navs' = [navs EXCEPT ![j].pc = "done"]
    /\ UNCHANGED <<inits, wall>>

CacheNext ==
  /\ UNCHANGED <<vars, nodeVars, chatVars, authVars>>
  /\
    \/ CTick
    \/ \E isAuthenticated \in BOOLEAN : InitLearning(isAuthenticated)
    \/ \E i \in InitIds, ok \in BOOLEAN : InitStartResponse(i, ok)
    \/ \E i \in InitIds, ok \in BOOLEAN : InitStepsResponse(i, ok)
    \/ \E stepNumber \in Clickable : GoToStep(stepNumber)
    \/ \E j \in NavIds, ok \in BOOLEAN : NavResponse(j, ok)

CacheSpec == Init /\ [][CacheNext]_allVars

----------------------------------------------------------------------------
(* Part 2, claims *)

\* C11 (as claimed): concurrent requests for the same uncached content key
\* share one fetch: at no time are two api.startLearningInstant calls
\* awaiting their response, nor two api.getLearningStep calls for the same
\* step.
C11_SingleFlight ==
    /\ Cardinality(InitsInFlight) <= 1
    /\ \A k \in 1..TotalSteps : Cardinality(NavsInFlight(k)) <= 1

\* the steps held by a stored item
CachedSteps(c) ==
    IF c = <<>> THEN {}
    ELSE {c[1].stepDataCache[k] : k \in 1..TotalSteps} \ {NoStep}

\* C12: an access (a step that calls getFromCache) to an entry created more
\* than 24 hours ago finds it expired, gets null, and leaves nothing of it:
\* afterwards the key is empty or holds an entry created now, and no step of
\* the expired entry is stored or put on screen by that access.
C12_ExpiredEntryIsAbsent ==
    [][ ( /\ cache # <<>>
          /\ wall - cache[1].cachedAt > 24 * 3600000
          /\ cacheLog' # "" )
        => /\ cacheLog' = LogExpired
           /\ cache' = <<>> \/ cache'[1].cachedAt = wall
           /\ CachedSteps(cache') \cap CachedSteps(cache) = {}
           /\ view'.stepData = view.stepData
                \/ view'.stepData \notin CachedSteps(cache) ]_cacheVars

C12_Witness ==
    /\ cacheLog = LogExpired
    /\ cache = <<>>
    /\ view.stepData # NoStep

\* C13 (as claimed): while the entry is unexpired, a step it holds stays as
\* it is: no step of the handlers replaces or removes the content cached
\* for a step number.
C13_CachedStepIsKept ==
    [][ ( /\ cache # <<>>
          /\ wall' - cache[1].cachedAt <= 24 * 3600000 )
        => \A k \in 1..TotalSteps :
              cache[1].stepDataCache[k] # NoStep
                => /\ cache' # <<>>
                   /\ cache'[1].stepDataCache[k] = cache[1].stepDataCache[k] ]_cacheVars

\* C14 (as claimed): when initLearning or goToStep finds the entry expired,
\* the entry is discarded and a full refetch (api.startLearningInstant,
\* which rebuilds title, step list and step 1) is started, never the fetch of
\* one step.
C14_ExpiryStartsFullRefetch ==
    [][ ( /\ cache # <<>>
          /\ wall - cache[1].cachedAt > 24 * 3600000
          /\ cacheLog' = LogExpired
          /\ Len(inits') + Len(navs') > Len(inits) + Len(navs) )
        => /\ cache' = <<>>
           /\ Len(inits') = Len(inits) + 1
           /\ navs' = navs ]_cacheVars

\* the access of this step is by initLearning or goToStep, not by a response
\* handler: no request is answered in it
HandlerStarts ==
    /\ \A i \in InitIds : inits'[i] = inits[i]
    /\ \A j \in NavIds : navs'[j] = navs[j]

\* C16: when initLearning or goToStep(k) finds an entry at most 24 hours old
\* that holds the step it needs (step 1 and a positive step count for
\* initLearning, step k for goToStep), it issues no request and the step on
\* screen afterwards is the cached one.
C16_FreshHitNeedsNoRequest ==
    [][ ( /\ cache # <<>>
          /\ wall - cache[1].cachedAt <= 24 * 3600000
          /\ cacheLog' # ""
          /\ HandlerStarts )
        => /\ cache' = cache
           /\ \/ /\ Len(inits') = Len(inits) + 1
                 /\ cache[1].totalSteps = 0 \/ cache[1].stepDataCache[1] = NoStep
              \/ /\ Len(navs') = Len(navs) + 1
                 /\ cache[1].stepDataCache[navs'[Len(navs')].step] = NoStep
              \/ /\ Fetches' = Fetches
                 /\ view'.currentStep \in 1..TotalSteps
                 /\ view'.stepData # NoStep
                 /\ view'.stepData = cache[1].stepDataCache[view'.currentStep]
                 /\ ~view'.isLoadingStep ]_cacheVars

\* step 2 was fetched and cached, and step 1 is on screen again: it was
\* put there from the entry, which is exactly 24 hours old
C16_Witness ==
    /\ cacheLog = LogHit
    /\ Len(inits) = 1 /\ inits[1].pc = "done"
    /\ Len(navs) = 1 /\ navs[1].pc = "done"
    /\ cache # <<>>
    /\ wall - cache[1].cachedAt = 24 * 3600000
    /\ cache[1].stepDataCache[2] = NavContent(1)
    /\ view.currentStep = 1
    /\ view.stepData = cache[1].stepDataCache[1]
    /\ view.stepData = InitContent(1)

----------------------------------------------------------------------------
(* Part 3, the actions of the node store *)

NodeReqIds == 1..Len(nodeReqs)

\* the api.getNode requests for nodeId that await their response
NodeInFlight(nodeId) ==
    {r \in NodeReqIds : nodeReqs[r].id = nodeId /\ nodeReqs[r].pc = "sent"}

\* nodeDetail = {...data.node, ...data.progress} of response r
NodeDetail(r) == [node_id |-> nodeReqs[r].id, response |-> r]

\* state.currentNode?.node_id === nodeId
IsCurrent(nodeId) ==
    node.currentNode # <<>> /\ node.currentNode[1].node_id = nodeId

\* nodeId in state._pendingRequests && state._pendingRequests[nodeId] !== undefined
HasPending_Never(nodeId) == FALSE
HasPending(nodeId) == node.pendingRequests[nodeId] # Undefined

\* selectNode: the whole call up to the await of api.getNode, the
\* registration of the request in _pendingRequests included
SelectNode(nodeId) ==
    /\ UNCHANGED others
    /\ selected' = nodeId
    /\ IF IsCurrent(nodeId)
       THEN /\ returned' = Resolved
            /\ UNCHANGED <<node, nodeReqs>>
       ELSE IF node.nodesCache[nodeId] # <<>>
       THEN /\ node' = [node EXCEPT !.currentNode = node.nodesCache[nodeId],
                                    !.isLoading = FALSE]
            /\ returned' = Resolved
            /\ UNCHANGED nodeReqs
       ELSE IF HasPending(nodeId)
       THEN /\ returned' = node.pendingRequests[nodeId]
            /\ UNCHANGED <<node, nodeReqs>>
       ELSE /\ Len(nodeReqs) < MaxNodeReqs
            /\ nodeReqs' = Append(nodeReqs, [id |-> nodeId, pc |-> "sent"])
            /\ node' = [node EXCEPT !.isLoading = TRUE, !.error = NULL,
                                    !.pendingRequests[nodeId] = Len(nodeReqs) + 1]
            /\ returned' = Len(nodeReqs) + 1

\* api.getNode settles
GetNodeResponse(r, ok) ==
    /\ r \in NodeReqIds
    /\ nodeReqs[r].pc = "sent"
    /\ nodeReqs' = [nodeReqs EXCEPT ![r].pc = "done"]
    /\ IF ok
       THEN node' = [node EXCEPT !.currentNode = <<NodeDetail(r)>>,
                                 !.isLoading = FALSE,
                                 !.nodesCache[nodeReqs[r].id] = <<NodeDetail(r)>>,
                                 !.pendingRequests[nodeReqs[r].id] = Undefined]
       ELSE node' = [node EXCEPT !.error = ErrNode,
                                 !.isLoading = FALSE,
                                 !.pendingRequests[nodeReqs[r].id] = Undefined]
    /\ UNCHANGED <<others, returned, selected>>

LoadNodes ==
    /\ others.getNodes < MaxOthers
    /\ others' = [others EXCEPT !.getNodes = @ + 1]
    /\ node' = [node EXCEPT !.isLoading = TRUE, !.error = NULL]
    /\ UNCHANGED <<nodeReqs, returned, selected>>

\* api.getNodes settles
LoadNodesResponse(ok) ==
    /\ others.getNodes > 0
    /\ others' = [others EXCEPT !.getNodes = @ - 1]
    /\ IF ok
       THEN node' = [node EXCEPT !.nodes = <<"A", "B">>, !.isLoading = FALSE]
       ELSE node' = [node EXCEPT !.error = ErrNodes, !.isLoading = FALSE]
    /\ UNCHANGED <<nodeReqs, returned, selected>>

StartNode ==
    /\ others.startNode < MaxOthers
    /\ others' = [others EXCEPT !.startNode = @ + 1]
    /\ node' = [node EXCEPT !.isLoading = TRUE, !.error = NULL]
    /\ UNCHANGED <<nodeReqs, returned, selected>>

\* api.startNode settles
StartNodeResponse(ok) ==
    /\ others.startNode > 0
    /\ others' = [others EXCEPT !.startNode = @ - 1]
    /\ IF ok
       THEN node' = [node EXCEPT !.isLoading = FALSE]
       ELSE node' = [node EXCEPT !.error = ErrStart, !.isLoading = FALSE]
    /\ UNCHANGED <<nodeReqs, returned, selected>>

NodeClearError ==
    /\ node' = [node EXCEPT !.error = NULL]
    /\ UNCHANGED <<nodeReqs, others, returned, selected>>

NodeNext ==
  /\ UNCHANGED <<vars, cacheVars, chatVars, authVars>>
  /\
    \/ \E nodeId \in NodeIdSet : SelectNode(nodeId)
    \/ \E r \in NodeReqIds, ok \in BOOLEAN : GetNodeResponse(r, ok)
    \/ LoadNodes
    \/ \E ok \in BOOLEAN : LoadNodesResponse(ok)
    \/ StartNode
    \/ \E ok \in BOOLEAN : StartNodeResponse(ok)
    \/ NodeClearError

NodeSpec == Init /\ [][NodeNext]_allVars

----------------------------------------------------------------------------
(* Part 3, claims *)

\* C15: for each node id at most one api.getNode request is in flight, and a
\* selectNode call made while one is in flight returns that request's
\* promise; once a response for the id was stored in _nodesCache no request
\* for it is issued again; selectNode of the node that is current changes
\* no field of the store.
C15_SelectNodeIsSingleFlight ==
    /\ [](\A n \in NodeIdSet : Cardinality(NodeInFlight(n)) <= 1)
    /\ [][ \A n \in NodeIdSet :
             /\ (SelectNode(n) /\ NodeInFlight(n) # {} /\ ~IsCurrent(n))
                   => /\ returned' \in NodeInFlight(n)
                      /\ nodeReqs' = nodeReqs
             /\ node.nodesCache[n] # <<>>
                   => /\ NodeInFlight(n)' = {}
                      /\ node'.nodesCache[n] = node.nodesCache[n]
             /\ (SelectNode(n) /\ IsCurrent(n))
                   => /\ node' = node
                      /\ nodeReqs' = nodeReqs ]_nodeVars

\* "A" was fetched, then "B" was fetched, then "A" was selected again: it is
\* current as response 1 delivered it, and two requests were made in all
C15_Witness ==
    /\ Len(nodeReqs) = 2
    /\ nodeReqs[1] = [id |-> "A", pc |-> "done"]
    /\ nodeReqs[2] = [id |-> "B", pc |-> "done"]
    /\ node.nodesCache["B"] # <<>>
    /\ node.currentNode = <<[node_id |-> "A", response |-> 1]>>
    /\ returned = Resolved

----------------------------------------------------------------------------
(* Part 4, messages, the model and the tools *)

Message(role, turn, tool, result) ==
    [role |-> role, turn |-> turn, tool |-> tool, result |-> result]

UserMessage(i) == Message("user", i, "", "")

AssistantMessage(i) == Message("assistant", i, "", "")

\* the content of a model response: <<>> when it is text only
\* (stop_reason is not "tool_use"), else the names of its tool_use blocks
ToolUses ==
    UNION {[1..n -> ToolNames] : n \in 1..MaxToolUses}

ModelResponses == {<<>>} \cup ToolUses

\* execute_tool: the payload of the handler, or None when no branch matches
ExecuteTool(tool_name) ==
    IF tool_name = "create_learning_path" THEN "ok"
    ELSE IF tool_name = "generate_exercise" THEN "ok"
    ELSE "None"

\* execute_tools: one result per tool_use block, in the order of the blocks
ExecuteTools(i, content) ==
    [n \in 1..Len(content) |->
        Message("tool", i, content[n], ExecuteTool(content[n]))]

TurnIds == 1..Len(turns)

\* process_message calls that have neither returned nor raised
TurnsInFlight ==
    {i \in TurnIds : turns[i].pc \notin {"done", "crashed"}}

\* the messages a sequence holds for turn i
OfTurn(msgs, i) == SelectSeq(msgs, LAMBDA m : m.turn = i)

\* what client.messages.create does: it raises, or it returns a response
ModelOutcomes ==
    {[ok |-> FALSE, content |-> <<>>]}
        \cup {[ok |-> TRUE, content |-> r] : r \in ModelResponses}

\* client.messages.create: the call blocks, so its outcome is part of the
\* step that makes it; the turn after the call
ModelCall(t, outcome) ==
    IF ~outcome.ok
    THEN [t EXCEPT !.pc = "crashed", !.history = <<>>, !.calls = 0, !.tools = <<>>]
    ELSE IF outcome.content # <<>>
    THEN [t EXCEPT !.pc = "tools", !.calls = Min(t.calls + 1, MaxCalls),
                   !.tools = outcome.content]
    ELSE [t EXCEPT !.pc = "save", !.calls = Min(t.calls + 1, MaxCalls),
                   !.tools = <<>>]

----------------------------------------------------------------------------
(* Part 4, the actions *)

\* handleSendMessage and, when it passes the guard, sendMessage up to its
\* await; the request starts process_message, which awaits get_user_profile
HandleSendMessage(blank) ==
    IF blank \/ chat.isLoading
    THEN UNCHANGED chatVars
    ELSE /\ Len(turns) < MaxTurns
         /\ chat' = [chat EXCEPT !.isLoading = TRUE, !.error = NULL,
                                 !.messages = Append(@, UserMessage(Len(turns) + 1))]
         /\ turns' = Append(turns, [req |-> "waiting", pc |-> "profile",
                                    history |-> <<>>, calls |-> 0, tools |-> <<>>])
         /\ UNCHANGED <<transcript, lastCall>>

\* get_user_profile returns; process_message awaits get_chat_history
GotProfile(i) ==
    /\ i \in TurnIds
    /\ turns[i].pc = "profile"
    /\ turns' = [turns EXCEPT ![i].pc = "history"]
    /\ UNCHANGED <<chat, transcript, lastCall>>

\* get_chat_history returns; the first model call
GotHistory(i, outcome) ==
    /\ i \in TurnIds
    /\ turns[i].pc = "history"
    /\ lastCall' = [turn |-> i, messages |-> Append(transcript, UserMessage(i))]
    /\ turns' = [turns EXCEPT ![i] =
                    ModelCall([turns[i] EXCEPT !.history = transcript], outcome)]
    /\ UNCHANGED <<chat, transcript>>

\* execute_tools returns; the model is called again
ToolsDone(i, outcome) ==
    /\ i \in TurnIds
    /\ turns[i].pc = "tools"
    /\ lastCall' = [turn |-> i,
                    messages |-> turns[i].history \o ExecuteTools(i, turns[i].tools)]
    /\ turns' = [turns EXCEPT ![i] = ModelCall(turns[i], outcome)]
    /\ UNCHANGED <<chat, transcript>>

\* save_message returns; process_message returns its ChatResponse
Saved(i) ==
    /\ i \in TurnIds
    /\ turns[i].pc = "save"
    /\ transcript' = Append(transcript, AssistantMessage(i))
    /\ turns' = [turns EXCEPT ![i].pc = "done", ![i].history = <<>>, ![i].calls = 0]
    /\ UNCHANGED <<chat, lastCall>>

\* api.sendChatMessage resolves with the ChatResponse
SendResponse(i) ==
    /\ i \in TurnIds
    /\ turns[i].req = "waiting"
    /\ turns[i].pc = "done"
    /\ turns' = [turns EXCEPT ![i].req = "answered"]
    /\ chat' = [chat EXCEPT !.messages = Append(@, AssistantMessage(i)),
                            !.isLoading = FALSE]
    /\ UNCHANGED <<transcript, lastCall>>

\* api.sendChatMessage rejects: the call raised on the server, or the
\* connection or the proxy gave up while the call was still running
SendFailure(i) ==
    /\ i \in TurnIds
    /\ turns[i].req = "waiting"
    /\ turns' = [turns EXCEPT ![i].req = "failed"]
    /\ chat' = [chat EXCEPT !.error = ErrSend, !.isLoading = FALSE]
    /\ UNCHANGED <<transcript, lastCall>>

ClearChat ==
    /\ chat' = [chat EXCEPT !.messages = <<>>, !.error = NULL]
    /\ UNCHANGED <<turns, transcript, lastCall>>

ChatNext ==
  /\ UNCHANGED <<vars, cacheVars, nodeVars, authVars>>
  /\
    \/ \E blank \in BOOLEAN : HandleSendMessage(blank)
    \/ \E i \in TurnIds : GotProfile(i)
    \/ \E i \in TurnIds, outcome \in ModelOutcomes : GotHistory(i, outcome)
    \/ \E i \in TurnIds, outcome \in ModelOutcomes : ToolsDone(i, outcome)
    \/ \E i \in TurnIds : Saved(i)
    \/ \E i \in TurnIds : SendResponse(i)
    \/ \E i \in TurnIds : SendFailure(i)
    \/ ClearChat

ChatSpec == Init /\ [][ChatNext]_allVars

\* process_message makes progress: an awaited coroutine returns, and
\* client.messages.create returns or raises
ChatFairness ==
    \A i \in 1..MaxTurns :
        /\ WF_chatVars(GotProfile(i))
        /\ WF_chatVars(\E outcome \in ModelOutcomes : GotHistory(i, outcome))
        /\ WF_chatVars(\E outcome \in ModelOutcomes : ToolsDone(i, outcome))
        /\ WF_chatVars(Saved(i))

ChatLiveSpec == Init /\ [][ChatNext]_allVars /\ ChatFairness

----------------------------------------------------------------------------
(* Part 4, claims *)

\* the tool results of turn i among the messages of the last model call
ToolResults(msgs, i) ==
    SelectSeq(msgs, LAMBDA m : m.role = "tool" /\ m.turn = i)

\* C17 (as claimed): when the model is called again after a response with
\* tool_use blocks, the messages of the call hold exactly one result per
\* block, in the order of the blocks, and each result is a success payload
\* or a structured error, also for a tool name that has no handler.
C17_OneResultPerInvocation ==
    [][ \A i \in TurnIds :
          (\E outcome \in ModelOutcomes : ToolsDone(i, outcome))
            => LET res == ToolResults(lastCall'.messages, i)
               IN  /\ lastCall'.turn = i
                   /\ Len(res) = Len(turns[i].tools)
                   /\ \A n \in 1..Len(res) :
                         /\ res[n].tool = turns[i].tools[n]
                         /\ res[n].result \in {"ok", "error"} ]_chatVars

\* C18 (as claimed): at most one process_message call is in flight for the
\* session at any instant.
C18_OneTurnInFlight ==
    Cardinality(TurnsInFlight) <= 1

\* C19 (as claimed): every turn ends, whatever the model answers: a
\* process_message call that is executing tools eventually returns or raises.
C19_TurnTerminates ==
    \A i \in 1..MaxTurns :
        (i \in TurnIds /\ turns[i].pc = "tools")
            ~> (i \in TurnIds /\ turns[i].pc \in {"save", "done", "crashed"})

\* C20 (as claimed): in a turn whose first response is one tool_use of
\* create_learning_path and whose second response is text, the second model
\* call is the last one, it receives the user message together with the tool
\* result, and when the turn returns it has appended three messages to the
\* transcript: the user message, the tool result and the final text.
C20_ToolThenText ==
    [][ \A i \in TurnIds :
          /\ ( /\ turns[i].calls = 1
               /\ turns[i].tools = <<"create_learning_path">>
               /\ ToolsDone(i, [ok |-> TRUE, content |-> <<>>]) )
               => /\ turns'[i].calls = 2
                  /\ turns'[i].pc = "save"
                  /\ \E n \in 1..Len(lastCall'.messages) :
                        lastCall'.messages[n] = UserMessage(i)
                  /\ ToolResults(lastCall'.messages, i)
                        = <<Message("tool", i, "create_learning_path", "ok")>>
          /\ ( /\ turns[i].calls = 2
               /\ lastCall.turn = i
               /\ ToolResults(lastCall.messages, i)
                     = <<Message("tool", i, "create_learning_path", "ok")>>
               /\ Saved(i) )
               => OfTurn(transcript', i)
                     = << UserMessage(i),
                          Message("tool", i, "create_learning_path", "ok"),
                          AssistantMessage(i) >> ]_chatVars

\* C21 (as claimed): when a turn is aborted after it has used up its rounds
\* of model calls and is still asked for tools, which the tab sees as a
\* failed send, the transcript is as before the turn: the user message the
\* tab appended for the turn is gone, and no message of the turn, so no tool
\* call without its result, is in the chat or in the stored transcript.
C21_AbortRollsBack ==
    [][ \A i \in TurnIds :
          ( /\ turns[i].calls = MaxCalls
            /\ turns[i].pc = "tools"
            /\ SendFailure(i) )
            => /\ OfTurn(chat'.messages, i) = <<>>
               /\ OfTurn(transcript', i) = <<>> ]_chatVars

\* C22 (as claimed): a failed request does not end the submission cycle while
\* attempts remain: the answer to the one api.submitExercise call of a
\* submission, and the answer to a result poll before the 10th, never ends
\* the submission with an error and never puts the status back to 'idle'.
C22_FailureIsRetried ==
    [][ \A i \in SubIds :
          ( \/ SubmitResponse(i)
            \/ PollResponse(i) /\ subs[i].attempt < MAX_POLL_ATTEMPTS )
            => /\ subs'[i].end # "error"
               /\ submissionStatus' # "idle" ]_vars

\* C23: the step of checkResult that finds the cap reached changes error and
\* submissionStatus only: results (an earlier verdict included),
\* currentExercise, editorCode and the other fields stay as they were; and a
\* submitCode call that comes after it and passes the 2-second gate is
\* accepted: the status is 'submitting', the error is cleared and a new
\* submission starts.
C23_CapLeavesStateIntact ==
    [][ /\ \A i \in SubIds :
            (CheckResult(i) /\ CapReached(subs[i].attempt))
                => /\ error' = ErrLonger
                   /\ submissionStatus' = "idle"
                   /\ UNCHANGED <<results, currentExercise, editorCode, isLoading,
                                  pollAttempts, lastSubmissionTime>>
        /\ ( /\ \E i \in SubIds : subs[i].end = "cap"
             /\ SubmitCode \/ SubmitCodeAgain
             /\ now - lastSubmissionTime >= 2000 )
                => /\ submissionStatus' = "submitting"
                   /\ error' = NULL
                   /\ pollAttempts' = 0
                   /\ Len(subs') = Len(subs) + 1
                   /\ subs'[Len(subs')] = NewSub
                   /\ UNCHANGED <<results, currentExercise, editorCode>> ]_vars

\* a submission ran into the cap, and the submitCode call made after it was
\* accepted: a new submission waits for api.submitExercise
C23_Witness ==
    /\ Len(subs) = 2
    /\ subs[1].end = "cap"
    /\ subs[2].pc = "submit"
    /\ submissionStatus = "submitting"
    /\ error = NULL
    /\ pollAttempts = 0

----------------------------------------------------------------------------
(* Part 2, the hint button of the learning view *)

\* the hint levels on display: hints.filter(h => h.level <= showHint)
HintsShown(v) == {k \in 1..HINT_LEVELS : k <= v.showHint}

\* the hint button is rendered with the content of a loaded step
HintButton ==
    /\ view.error = NULL
    /\ ~view.isLoadingStep
    /\ view.stepData # NoStep

\* onClick of the hint button
ShowHintClick ==
    /\ HintButton
    /\ view' = [view EXCEPT !.showHint = IF @ < HINT_LEVELS THEN @ + 1 ELSE 0]
    /\ cacheLog' = ""
    /\ UNCHANGED <<cache, inits, navs, wall>>

\* the learning view with its hint button
HintNext ==
  /\ UNCHANGED <<vars, nodeVars, chatVars, authVars>>
  /\
    \/ CTick
    \/ \E isAuthenticated \in BOOLEAN : InitLearning(isAuthenticated)
    \/ \E i \in InitIds, ok \in BOOLEAN : InitStartResponse(i, ok)
    \/ \E i \in InitIds, ok \in BOOLEAN : InitStepsResponse(i, ok)
    \/ \E stepNumber \in Clickable : GoToStep(stepNumber)
    \/ \E j \in NavIds, ok \in BOOLEAN : NavResponse(j, ok)
    \/ ShowHintClick

HintSpec == Init /\ [][HintNext]_allVars

C25_HintStateIsMonotonic ==
    [][ view'.showHint >= view.showHint ]_cacheVars

----------------------------------------------------------------------------
(* Part 3, the order of the responses *)

\* C26 (as claimed): when no api.getNode request is in flight and the node of
\* the last selectNode call was delivered, currentNode is that node: a
\* response for an earlier selection that arrives late does not replace it.
C26_LastSelectionWins ==
    ( /\ \A n \in NodeIdSet : NodeInFlight(n) = {}
      /\ selected # ""
      /\ node.nodesCache[selected] # <<>> )
        => IsCurrent(selected)

----------------------------------------------------------------------------
(* Part 4, the chat of the tab *)

\* C27 (as claimed): every assistant message in the chat of the tab has the
\* user message of its own turn directly before it.
C27_ReplyFollowsItsQuestion ==
    \A n \in 1..Len(chat.messages) :
        chat.messages[n].role = "assistant"
            => /\ n > 1
               /\ chat.messages[n - 1] = UserMessage(chat.messages[n].turn)

----------------------------------------------------------------------------
(* Part 5, the actions of the auth store *)

\* Date.now() - state._lastLoadTime < LOAD_USER_THROTTLE_MS
RecentlyLoaded(t, lastLoadTime) == t - lastLoadTime < LOAD_USER_THROTTLE_MS

ATick ==
    /\ authNow < MaxAuthTime
    /\ authNow' = authNow + AuthClockStep
    /\ UNCHANGED <<auth, accessToken, authReqs, loggedOut>>

\* login up to its await
Login ==
    /\ authReqs.login < MaxLogins
    /\ auth' = [auth EXCEPT !.isLoading = TRUE, !.error = NULL]
    /\ authReqs' = [authReqs EXCEPT !.login = @ + 1]
    /\ UNCHANGED <<accessToken, authNow, loggedOut>>

\* api.login settles
LoginResponse(ok) ==
    /\ authReqs.login > 0
    /\ authReqs' = [authReqs EXCEPT !.login = @ - 1]
    /\ IF ok
       THEN /\ auth' = [auth EXCEPT !.user = TheUser, !.token = LoginToken,
                                    !.isAuthenticated = TRUE, !.isLoading = FALSE]
            /\ loggedOut' = FALSE
       ELSE /\ auth' = [auth EXCEPT !.error = ErrLogin, !.isLoading = FALSE]
            /\ UNCHANGED loggedOut
    /\ UNCHANGED <<accessToken, authNow>>

\* logout up to its await; the pages offer it to a signed-in user
Logout ==
    /\ auth.isAuthenticated
    /\ authReqs.logout < MaxLogouts
    /\ authReqs' = [authReqs EXCEPT !.logout = @ + 1]
    /\ UNCHANGED <<auth, accessToken, authNow, loggedOut>>

\* api.logout settles, with or without an error: the finally block
LogoutResponse(ok) ==
    /\ authReqs.logout > 0
    /\ authReqs' = [authReqs EXCEPT !.logout = @ - 1]
    /\ auth' = [auth EXCEPT !.user = NULL, !.token = NULL, !.isAuthenticated = FALSE]
    /\ loggedOut' = TRUE
    /\ UNCHANGED <<accessToken, authNow>>

\* loadUser up to its return or to the await of api.getCurrentUser, the
\* registration of the request in _loadPromise included
LoadUser ==
    /\ IF auth.isAuthenticated /\ auth.user # NULL
            /\ RecentlyLoaded(authNow, auth.lastLoadTime)
       THEN /\ auth' = [auth EXCEPT !.isLoading = FALSE]
            /\ UNCHANGED authReqs
       ELSE IF auth.loadPromise # NoPromise
       THEN UNCHANGED <<auth, authReqs>>
       ELSE IF accessToken = NULL
       THEN /\ auth' = [auth EXCEPT !.isAuthenticated = FALSE, !.isLoading = FALSE]
            /\ UNCHANGED authReqs
       ELSE IF auth.isAuthenticated /\ auth.user # NULL /\ auth.hasHydrated
       THEN /\ auth' = [auth EXCEPT !.isLoading = FALSE, !.lastLoadTime = authNow]
            /\ UNCHANGED authReqs
       ELSE /\ auth' = [auth EXCEPT !.isLoading = TRUE, !.loadPromise = 1]
            /\ authReqs' = [authReqs EXCEPT !.getCurrentUser = accessToken]
    /\ UNCHANGED <<accessToken, authNow, loggedOut>>

\* api.getCurrentUser settles
LoadUserResponse(ok) ==
    /\ authReqs.getCurrentUser # NULL
    /\ authReqs' = [authReqs EXCEPT !.getCurrentUser = NULL]
    /\ IF ok
       THEN auth' = [auth EXCEPT !.user = TheUser,
                                 !.token = authReqs.getCurrentUser,
                                 !.isAuthenticated = TRUE, !.isLoading = FALSE,
                                 !.lastLoadTime = authNow,
                                 !.loadPromise = NoPromise]
       ELSE auth' = [auth EXCEPT !.user = NULL, !.token = NULL,
                                 !.isAuthenticated = FALSE, !.isLoading = FALSE,
                                 !.loadPromise = NoPromise]
    /\ UNCHANGED <<accessToken, authNow, loggedOut>>

\* the 'access_token' entry of localStorage is written or removed; the
\* store only reads it
SetAccessToken(value) ==
    /\ accessToken' = value
    /\ accessToken' # accessToken
    /\ UNCHANGED <<auth, authReqs, authNow, loggedOut>>

AuthClearError ==
    /\ auth' = [auth EXCEPT !.error = NULL]
    /\ UNCHANGED <<accessToken, authReqs, authNow, loggedOut>>

\* the page is loaded anew: the store is created again from its initial
\* fields and the partialized 'auth-storage' entry, onRehydrateStorage runs,
\* and the requests of the old page have nobody to answer to
Rehydrate ==
    /\ auth' = [user |-> auth.user, token |-> auth.token,
                isAuthenticated |-> auth.isAuthenticated,
                isLoading |-> TRUE, error |-> NULL, hasHydrated |-> TRUE,
                lastLoadTime |-> 0, loadPromise |-> NoPromise]
    /\ authReqs' = [login |-> 0, logout |-> 0, getCurrentUser |-> NULL]
    /\ UNCHANGED <<accessToken, authNow, loggedOut>>

AuthNext ==
  /\ UNCHANGED <<vars, cacheVars, nodeVars, chatVars>>
  /\
    \/ ATick
    \/ Login
    \/ \E ok \in BOOLEAN : LoginResponse(ok)
    \/ Logout
    \/ \E ok \in BOOLEAN : LogoutResponse(ok)
    \/ LoadUser
    \/ \E ok \in BOOLEAN : LoadUserResponse(ok)
    \/ AuthClearError
    \/ Rehydrate
    \/ \E value \in {NULL, StoredToken} : SetAccessToken(value)

AuthSpec == Init /\ [][AuthNext]_allVars

----------------------------------------------------------------------------
(* Part 5, claims *)

C29_LoadUserKeepsSession ==
    [][ ( /\ accessToken = NULL
          /\ auth.isAuthenticated
          /\ auth.token = LoginToken
          /\ LoadUser )
            => auth'.isAuthenticated ]_authVars

----------------------------------------------------------------------------
(* Part 2, the age of the entry *)

\* C30: a step that finds an entry which is not expired and leaves an entry
\* keeps its cachedAt; an entry that is created (none was stored, or the
\* stored one was expired) gets the present time as its cachedAt; and
\* getFromCache reports a hit only for an entry at most 24 hours older than
\* its cachedAt. So no entry is returned more than 24 hours after it was
\* first created, whatever was written to it in between.
C30_ExpiryHorizonIsFixed ==
    [][ /\ ( /\ cache # <<>>
             /\ ~(wall - cache[1].cachedAt > 24 * 3600000)
             /\ cache' # <<>> )
                => cache'[1].cachedAt = cache[1].cachedAt
        /\ ( /\ cache = <<>> \/ wall - cache[1].cachedAt > 24 * 3600000
             /\ cache' # <<>>
             /\ cache' # cache )
                => cache'[1].cachedAt = wall
        /\ cacheLog' = LogHit
                => /\ cache' # <<>>
                   /\ wall' - cache'[1].cachedAt <= 24 * 3600000 ]_cacheVars

\* the entry was created by one initLearning, saved again by a second one
\* and extended by goToStep; 24 hours after its creation it still carries its
\* first cachedAt and is returned
C30_Witness ==
    /\ Len(inits) = 2 /\ inits[1].pc = "done" /\ inits[2].pc = "done"
    /\ \E j \in NavIds : navs[j].pc = "done"
    /\ cache # <<>>
    /\ cache[1].cachedAt = CacheClockStep
    /\ wall - cache[1].cachedAt = 24 * 3600000
    /\ cache[1].stepDataCache[1] = InitContent(2)
    /\ cache[1].stepDataCache[2] # NoStep
    /\ cacheLog = LogHit

====
